---- MODULE Spec2Model ----
(***************************************************************************)
(* Model of services/preload_manager.py (class PreloadManager).            *)
(*                                                                         *)
(* The manager lives on one asyncio event loop, so the code between two    *)
(* awaits that really suspend is one atomic step.  asyncio.Queue() is      *)
(* unbounded, so `await self.preload_queue.put(...)` never suspends and    *)
(* preload_page / preload_upcoming_pages are one step each.  The consumer  *)
(* coroutine suspends in `wait_for(self.preload_queue.get())` and in the   *)
(* analysis pipeline (`await self._analyze_page_sync(...)`).               *)
(* Task.cancel() makes the next resumption of the task raise               *)
(* CancelledError, which is a BaseException (Python >= 3.8) and so passes  *)
(* every `except Exception` of the manager and of the pipeline.            *)
(*                                                                         *)
(* Assumptions: every method is called on the event-loop thread (the class *)
(* takes no lock and asyncio.Queue is not thread-safe), and                *)
(* start_background_processing is called with a running loop.  The         *)
(* one-second timeout of wait_for changes no state and is a stuttering     *)
(* step.  A queue.get() that returns resumes the consumer in the same step *)
(* (wait_for awaits in the caller's task).                                 *)
(***************************************************************************)
EXTENDS Integers, Sequences, FiniteSets, TLC

\* ---------------------------------------------------------------- bounds
MaxPage == 1
MaxQueue == 2
\* how far before the first page a caller's current_page may lie
MaxBack == 2
\* the longest page list of the walk-through scenario
MaxScenarioPages == 5
\* the most put() calls the model leaves unmatched by a task_done(): a full
\* queue and one request in flight
MaxUnfinished == MaxQueue + 1

\* ------------------------------------------------------- program constants
max_workers == 2
preload_ahead == 2

\* ------------------------------------------------------------ input sets
Sessions == {"s1"}
PageNums == 0..MaxPage
Langs == {"en-US", "es-ES"}
\* Python's None (a record, so that it compares with requests and analyses)
None == [none |-> TRUE]

\* what `returned` holds before any read method was called
NoCall == [method |-> "none", value |-> None]

\* the image path of page k of a session's page list
PagePath(k) == k

\* a queued tuple (session_id, page_num, page_image_path, language_code)
PrefetchRequest(s, p, path, lang) ==
    [session_id |-> s, page_num |-> p, page_image_path |-> path, language_code |-> lang]

\* raised: whether the last preload_page / preload_upcoming_pages call ended
\* with an exception at its caller
\* returned: the value the last call of a read method handed to its caller
\* unfinished_tasks: the queue's count of put() calls not yet matched by a
\* task_done() (asyncio.Queue._unfinished_tasks)
VARIABLES preload_queue, preload_results, preload_status, running,
          background_task, request, raised, returned, unfinished_tasks

vars == <<preload_queue, preload_results, preload_status, running,
          background_task, request, raised, returned, unfinished_tasks>>

\* ---------------------------------------------------- nested dict helpers
\* d[s][p] = v, creating d[s] = {} first when s is not a key of d
DictStore(d, s, p, v) ==
    IF s \in DOMAIN d
      THEN [d EXCEPT ![s] = (p :> v) @@ @]
      ELSE (s :> (p :> v)) @@ d

\* del d[s]
DictDel(d, s) == [k \in (DOMAIN d) \ {s} |-> d[k]]

\* ------------------------------------------------------------ pure reads
is_page_preloaded(s, p) ==
    s \in DOMAIN preload_results /\ p \in DOMAIN preload_results[s]

get_preloaded_page(s, p) ==
    IF is_page_preloaded(s, p) THEN preload_results[s][p] ELSE None

get_preload_status(s, p) ==
    IF s \in DOMAIN preload_status /\ p \in DOMAIN preload_status[s]
      THEN preload_status[s][p]
      ELSE "not_started"

\* number of pages of session s whose recorded status is st
CountStatus(s, st) ==
    Cardinality({p \in DOMAIN preload_status[s] : preload_status[s][p] = st})

\* variant: completed is taken from the number of stored results
get_preload_stats_byresults(s) ==
    IF s \notin DOMAIN preload_status
      THEN [total_pages |-> 0, completed |-> 0, processing |-> 0, failed |-> 0,
            not_started |-> 0]
      ELSE [total_pages |-> Cardinality(DOMAIN preload_status[s]),
            completed |-> IF s \in DOMAIN preload_results
                            THEN Cardinality(DOMAIN preload_results[s]) ELSE 0,
            processing |-> CountStatus(s, "processing"),
            failed |-> CountStatus(s, "failed"),
            not_started |-> CountStatus(s, "not_started")]

get_preload_stats(s) ==
    IF s \notin DOMAIN preload_status
      THEN [total_pages |-> 0, completed |-> 0, processing |-> 0, failed |-> 0,
            not_started |-> 0]
      ELSE [total_pages |-> Cardinality(DOMAIN preload_status[s]),
            completed |-> CountStatus(s, "completed"),
            processing |-> CountStatus(s, "processing"),
            failed |-> CountStatus(s, "failed"),
            not_started |-> CountStatus(s, "not_started")]

\* variant: the pipeline hands back no analysis
analyze_and_generate_audio_none(path, lang) == None

\* the value the pipeline returns for (page_image_path, language_code)
analyze_and_generate_audio(path, lang) == [panels_of |-> path, language |-> lang]

\* ------------------------------------------------------------------ Init
Init ==
    /\ preload_queue = << >>
    /\ preload_results = << >>
    /\ preload_status = << >>
    /\ running = FALSE
    /\ background_task = "none"
    /\ request = None
    /\ raised = FALSE
    /\ returned = NoCall
    /\ unfinished_tasks = 0

\* --------------------------------------------------------------- actions
\* variant: the flag is not tested, every call creates a consumer task
start_background_processing_unguarded ==
    /\ running' = TRUE
    /\ background_task' = "waiting"
    /\ request' = None
    /\ UNCHANGED <<preload_queue, preload_results, preload_status, raised, returned>>
    /\ UNCHANGED unfinished_tasks

\* variant: the flag is set but no consumer task is created
start_background_processing_notask ==
    /\ ~running
    /\ running' = TRUE
    /\ UNCHANGED <<preload_queue, preload_results, preload_status, background_task, request,
                   raised, returned>>
    /\ UNCHANGED unfinished_tasks

start_background_processing ==
    /\ ~running
    /\ running' = TRUE
    /\ background_task' = "waiting"
    /\ request' = None
    /\ UNCHANGED <<preload_queue, preload_results, preload_status, raised, returned>>
    /\ UNCHANGED unfinished_tasks

\* variant: the flag is cleared but the consumer task is not cancelled
stop_background_processing_nocancel ==
    /\ running
    /\ running' = FALSE
    /\ UNCHANGED <<preload_queue, preload_results, preload_status, background_task,
                   request, raised, returned>>
    /\ UNCHANGED unfinished_tasks

stop_background_processing ==
    /\ running
    /\ running' = FALSE
    /\ background_task' = "cancelled"
    /\ request' = None
    /\ UNCHANGED <<preload_queue, preload_results, preload_status, raised, returned>>
    /\ UNCHANGED unfinished_tasks

\* variant: the call also records the page as in progress
preload_page_marksstatus(s, p, path, lang) ==
    /\ ~is_page_preloaded(s, p)
    /\ Len(preload_queue) < MaxQueue
    /\ unfinished_tasks < MaxUnfinished
    /\ preload_queue' = Append(preload_queue, PrefetchRequest(s, p, path, lang))
    /\ preload_status' = DictStore(preload_status, s, p, "processing")
    /\ raised' = FALSE
    /\ UNCHANGED <<preload_results, running, background_task, request, returned>>
    /\ unfinished_tasks' = unfinished_tasks + 1

\* lines 106-124; the put on the unbounded queue never suspends and counts one
\* more unfinished task.  The guards on MaxQueue and MaxUnfinished only bound
\* the model.
preload_page(s, p, path, lang) ==
    /\ ~is_page_preloaded(s, p)
    /\ Len(preload_queue) < MaxQueue
    /\ unfinished_tasks < MaxUnfinished
    /\ preload_queue' = Append(preload_queue, PrefetchRequest(s, p, path, lang))
    /\ raised' = FALSE
    /\ UNCHANGED <<preload_results, preload_status, running, background_task, request,
                   returned>>
    /\ unfinished_tasks' = unfinished_tasks + 1

\* variant: only the results of the session are removed
clear_session_data_resultsonly(s) ==
    /\ preload_results' = DictDel(preload_results, s)
    /\ UNCHANGED <<preload_queue, preload_status, running, background_task, request,
                   raised, returned>>
    /\ UNCHANGED unfinished_tasks

\* variant: the two dicts are emptied (dict.clear()) whatever the session
clear_session_data_all(s) ==
    /\ preload_results' = << >>
    /\ preload_status' = << >>
    /\ UNCHANGED <<preload_queue, running, background_task, request, raised, returned>>
    /\ UNCHANGED unfinished_tasks

clear_session_data(s) ==
    /\ preload_results' = DictDel(preload_results, s)
    /\ preload_status' = DictDel(preload_status, s)
    /\ UNCHANGED <<preload_queue, running, background_task, request, raised, returned>>
    /\ UNCHANGED unfinished_tasks

\* variant: the consumer takes the newest request (a LifoQueue)
WorkerDequeue_newest ==
    /\ running
    /\ background_task = "waiting"
    /\ preload_queue # << >>
    /\ request' = preload_queue[Len(preload_queue)]
    /\ preload_queue' = SubSeq(preload_queue, 1, Len(preload_queue) - 1)
    /\ preload_status' = DictStore(preload_status,
                                   preload_queue[Len(preload_queue)].session_id,
                                   preload_queue[Len(preload_queue)].page_num, "processing")
    /\ background_task' = "analyzing"
    /\ UNCHANGED <<preload_results, running, raised, returned>>
    /\ UNCHANGED unfinished_tasks

\* variant: the status is filed under the page before the requested one
WorkerDequeue_offbyone ==
    /\ running
    /\ background_task = "waiting"
    /\ preload_queue # << >>
    /\ request' = Head(preload_queue)
    /\ preload_queue' = Tail(preload_queue)
    /\ preload_status' = DictStore(preload_status, Head(preload_queue).session_id,
                                   Head(preload_queue).page_num - 1, "processing")
    /\ background_task' = "analyzing"
    /\ UNCHANGED <<preload_results, running, raised, returned>>
    /\ UNCHANGED unfinished_tasks

\* variant: the next request is taken while the previous one is in flight
WorkerDequeue_eager ==
    /\ running
    /\ background_task \in {"waiting", "analyzing"}
    /\ preload_queue # << >>
    /\ request' = Head(preload_queue)
    /\ preload_queue' = Tail(preload_queue)
    /\ preload_status' = DictStore(preload_status, Head(preload_queue).session_id,
                                   Head(preload_queue).page_num, "processing")
    /\ background_task' = "analyzing"
    /\ UNCHANGED <<preload_results, running, raised, returned>>
    /\ UNCHANGED unfinished_tasks

\* _background_processor: queue.get() returns, then _process_page_background
\* runs up to the await of the pipeline
WorkerDequeue ==
    /\ running
    /\ background_task = "waiting"
    /\ preload_queue # << >>
    /\ request' = Head(preload_queue)
    /\ preload_queue' = Tail(preload_queue)
    /\ preload_status' = DictStore(preload_status, Head(preload_queue).session_id,
                                   Head(preload_queue).page_num, "processing")
    /\ background_task' = "analyzing"
    /\ UNCHANGED <<preload_results, running, raised, returned>>
    /\ UNCHANGED unfinished_tasks

\* variant: the status is published before the result is stored
PipelineReturns_statusfirst ==
    /\ background_task = "analyzing"
    /\ preload_status' = DictStore(preload_status, request.session_id,
                                   request.page_num, "completed")
    /\ UNCHANGED <<preload_queue, preload_results, running, background_task, request,
                   raised, returned>>
    /\ UNCHANGED unfinished_tasks

\* the pipeline returned: lines 83-89, then task_done() and the loop test.
\* Line 89 indexes preload_status[session_id] without re-creating it, so after
\* a clear_session_data during the pipeline it raises KeyError, which the
\* handler of lines 93-97 turns into "failed" (the result is already stored).
PipelineReturns ==
    /\ background_task = "analyzing"
    /\ LET s == request.session_id
           p == request.page_num
           analysis == analyze_and_generate_audio(request.page_image_path,
                                                  request.language_code)
       IN /\ preload_results' = DictStore(preload_results, s, p, analysis)
          /\ preload_status' =
               IF s \in DOMAIN preload_status
                 THEN DictStore(preload_status, s, p, "completed")
                 ELSE DictStore(preload_status, s, p, "failed")
    /\ background_task' = IF running THEN "waiting" ELSE "finished"
    /\ request' = None
    /\ UNCHANGED <<preload_queue, running, raised, returned>>
    /\ unfinished_tasks' = unfinished_tasks - 1

\* variant: the failure escapes the consumer loop and ends the task
PipelineRaises_escapes ==
    /\ background_task = "analyzing"
    /\ preload_status' = DictStore(preload_status, request.session_id,
                                   request.page_num, "failed")
    /\ background_task' = "finished"
    /\ request' = None
    /\ UNCHANGED <<preload_queue, preload_results, running, raised, returned>>
    /\ UNCHANGED unfinished_tasks

\* the pipeline raised: lines 93-97, then task_done() and the loop test
PipelineRaises ==
    /\ background_task = "analyzing"
    /\ preload_status' = DictStore(preload_status, request.session_id,
                                   request.page_num, "failed")
    /\ background_task' = IF running THEN "waiting" ELSE "finished"
    /\ request' = None
    /\ UNCHANGED <<preload_queue, preload_results, running, raised, returned>>
    /\ unfinished_tasks' = unfinished_tasks - 1

\* pages[k] of a Python list of total_pages paths: a negative k counts from
\* the end, and k outside -total_pages..total_pages-1 raises IndexError
IndexOutOfRange(total_pages, k) == k >= total_pages \/ k < -total_pages

PageAt(total_pages, k) == PagePath(IF k >= 0 THEN k ELSE total_pages + k)

\* lines 140-144: the next_page candidates, nearest first (only the upper
\* end is tested)
RECURSIVE pages_ahead(_, _, _, _)
pages_ahead(current_page, total_pages, i, ahead) ==
    IF i > ahead THEN << >>
    ELSE LET next_page == current_page + i
             rest == pages_ahead(current_page, total_pages, i + 1, ahead)
         IN IF next_page < total_pages THEN <<next_page>> \o rest ELSE rest

\* variant: the upper end is tested with <=
pages_to_preload_inclusive(current_page, total_pages, i) ==
    pages_ahead(current_page, total_pages + 1, i, preload_ahead)

\* the candidates of a manager built with the look-ahead preload_ahead
pages_to_preload(current_page, total_pages, i) ==
    pages_ahead(current_page, total_pages, i, preload_ahead)

\* line 144 evaluates pages[next_page] for a candidate outside the list
WindowRaises(current_page, total_pages) ==
    \E k \in 1..Len(pages_to_preload(current_page, total_pages, 1)) :
        IndexOutOfRange(total_pages, pages_to_preload(current_page, total_pages, 1)[k])

\* lines 147-148: preload_page for each candidate, in order
RECURSIVE EnqueueAll(_, _, _, _, _)
EnqueueAll(q, s, cands, total_pages, lang) ==
    IF cands = << >> THEN q
    ELSE LET p == Head(cands)
             q2 == IF is_page_preloaded(s, p) THEN q
                   ELSE Append(q, PrefetchRequest(s, p, PageAt(total_pages, p), lang))
         IN EnqueueAll(q2, s, Tail(cands), total_pages, lang)

\* lines 140-148: the queue after the candidates of the window were handed to
\* preload_page
enqueue_window(q, s, current_page, total_pages, lang) ==
    EnqueueAll(q, s, pages_to_preload(current_page, total_pages, 1), total_pages, lang)

Reverse(seq) == [k \in 1..Len(seq) |-> seq[Len(seq) + 1 - k]]

\* variant: the candidates are enqueued farthest first
preload_upcoming_pages_farthestfirst(s, current_page, total_pages, lang) ==
    /\ IF WindowRaises(current_page, total_pages)
         THEN /\ preload_queue' = preload_queue
              /\ raised' = TRUE
         ELSE /\ preload_queue' = EnqueueAll(preload_queue, s,
                                     Reverse(pages_to_preload(current_page, total_pages, 1)),
                                     total_pages, lang)
              /\ raised' = FALSE
    /\ Len(preload_queue') <= MaxQueue
    /\ UNCHANGED <<preload_results, preload_status, running, background_task, request,
                   returned>>
    /\ unfinished_tasks' = unfinished_tasks + Len(preload_queue') - Len(preload_queue)
    /\ unfinished_tasks' <= MaxUnfinished

preload_upcoming_pages(s, current_page, total_pages, lang) ==
    /\ IF WindowRaises(current_page, total_pages)
         THEN /\ preload_queue' = preload_queue
              /\ raised' = TRUE
         ELSE /\ preload_queue' = enqueue_window(preload_queue, s, current_page,
                                                 total_pages, lang)
              /\ raised' = FALSE
    /\ Len(preload_queue') <= MaxQueue
    /\ UNCHANGED <<preload_results, preload_status, running, background_task, request,
                   returned>>
    /\ unfinished_tasks' = unfinished_tasks + Len(preload_queue') - Len(preload_queue)
    /\ unfinished_tasks' <= MaxUnfinished

Next ==
    \/ start_background_processing
    \/ stop_background_processing
    \/ \E s \in Sessions, p \in PageNums, lang \in Langs :
          preload_page(s, p, PagePath(p), lang)
    \/ \E s \in Sessions, current_page \in PageNums, total_pages \in 0..(MaxPage + 1),
          lang \in Langs :
          preload_upcoming_pages(s, current_page, total_pages, lang)
    \/ \E s \in Sessions : clear_session_data(s)
    \/ WorkerDequeue
    \/ PipelineReturns
    \/ PipelineRaises

Spec == Init /\ [][Next]_vars

\* the same manager with callers that also pass a current_page before the
\* first page of the list
MisuseNext ==
    \/ start_background_processing
    \/ stop_background_processing
    \/ \E s \in Sessions, p \in PageNums, lang \in Langs :
          preload_page(s, p, PagePath(p), lang)
    \/ \E s \in Sessions, current_page \in (-MaxBack)..MaxPage,
          total_pages \in 0..(MaxPage + 1), lang \in Langs :
          preload_upcoming_pages(s, current_page, total_pages, lang)
    \/ \E s \in Sessions : clear_session_data(s)
    \/ WorkerDequeue
    \/ PipelineReturns
    \/ PipelineRaises

MisuseSpec == Init /\ [][MisuseNext]_vars

\* all queues of at most n requests
RECURSIVE QueuesUpTo(_)
QueuesUpTo(n) ==
    IF n = 0 THEN { << >> }
    ELSE QueuesUpTo(n - 1) \cup
         { Append(q, PrefetchRequest(s, p, PagePath(p), lang)) :
             q \in { q0 \in QueuesUpTo(n - 1) : Len(q0) = n - 1 },
             s \in Sessions, p \in PageNums, lang \in Langs }

\* the manager right after clear_session_data, called while no request is in
\* flight (requests may wait in the queue), and with no preload call from
\* then on
TeardownInit ==
    /\ preload_queue \in QueuesUpTo(MaxQueue)
    /\ preload_results = << >>
    /\ preload_status = << >>
    /\ running \in BOOLEAN
    /\ background_task = IF running THEN "waiting" ELSE "cancelled"
    /\ request = None
    /\ raised = FALSE
    /\ returned = NoCall
    /\ unfinished_tasks = Len(preload_queue)

TeardownNext ==
    \/ start_background_processing
    \/ stop_background_processing
    \/ \E s \in Sessions : clear_session_data(s)
    \/ WorkerDequeue
    \/ PipelineReturns
    \/ PipelineRaises

TeardownSpec == TeardownInit /\ [][TeardownNext]_vars

\* the manager with callers that never ask for page QuietPage
QuietPage == 0

QuietNext ==
    \/ start_background_processing
    \/ stop_background_processing
    \/ \E s \in Sessions, p \in PageNums \ {QuietPage}, lang \in Langs :
          preload_page(s, p, PagePath(p), lang)
    \/ \E s \in Sessions, current_page \in PageNums, total_pages \in 0..(MaxPage + 1),
          lang \in Langs :
          preload_upcoming_pages(s, current_page, total_pages, lang)
    \/ \E s \in Sessions : clear_session_data(s)
    \/ WorkerDequeue
    \/ PipelineReturns
    \/ PipelineRaises

QuietSpec == Init /\ [][QuietNext]_vars

\* ------------------------------------------------------- read methods
\* sessions and page numbers a reader may ask about: the ones callers preload
\* and one of each that no caller ever preloads
ReadSessions == Sessions \cup {"s0"}
ReadPages == 0..(MaxPage + 1)

\* lines 152-155
call_is_page_preloaded(s, p) ==
    /\ returned' = [method |-> "is_page_preloaded", value |-> is_page_preloaded(s, p)]
    /\ UNCHANGED <<preload_queue, preload_results, preload_status, running,
                   background_task, request, raised>>
    /\ UNCHANGED unfinished_tasks

\* lines 157-161
call_get_preloaded_page(s, p) ==
    /\ returned' = [method |-> "get_preloaded_page", value |-> get_preloaded_page(s, p)]
    /\ UNCHANGED <<preload_queue, preload_results, preload_status, running,
                   background_task, request, raised>>
    /\ UNCHANGED unfinished_tasks

\* variant: the lookup files a default entry (dict.setdefault) for a page it
\* does not find
call_get_preload_status_setdefault(s, p) ==
    /\ returned' = [method |-> "get_preload_status", value |-> get_preload_status(s, p)]
    /\ preload_status' = DictStore(preload_status, s, p, get_preload_status(s, p))
    /\ UNCHANGED <<preload_queue, preload_results, running, background_task, request,
                   raised>>
    /\ UNCHANGED unfinished_tasks

\* lines 163-167
call_get_preload_status(s, p) ==
    /\ returned' = [method |-> "get_preload_status", value |-> get_preload_status(s, p)]
    /\ UNCHANGED <<preload_queue, preload_results, preload_status, running,
                   background_task, request, raised>>
    /\ UNCHANGED unfinished_tasks

\* lines 177-197
call_get_preload_stats(s) ==
    /\ returned' = [method |-> "get_preload_stats", value |-> get_preload_stats(s)]
    /\ UNCHANGED <<preload_queue, preload_results, preload_status, running,
                   background_task, request, raised>>
    /\ UNCHANGED unfinished_tasks

\* the manager with callers that preload in one language and readers that
\* query it at any time
ReadLang == "en-US"

ReadNext ==
    \/ start_background_processing
    \/ stop_background_processing
    \/ \E s \in Sessions, p \in PageNums : preload_page(s, p, PagePath(p), ReadLang)
    \/ \E s \in Sessions, current_page \in PageNums, total_pages \in 0..(MaxPage + 1) :
          preload_upcoming_pages(s, current_page, total_pages, ReadLang)
    \/ \E s \in Sessions : clear_session_data(s)
    \/ WorkerDequeue
    \/ PipelineReturns
    \/ PipelineRaises
    \/ \E s \in ReadSessions, p \in ReadPages : call_is_page_preloaded(s, p)
    \/ \E s \in ReadSessions, p \in ReadPages : call_get_preloaded_page(s, p)
    \/ \E s \in ReadSessions, p \in ReadPages : call_get_preload_status(s, p)
    \/ \E s \in ReadSessions : call_get_preload_stats(s)

ReadSpec == Init /\ [][ReadNext]_vars

\* the manager of a session that is never cleared
NoClearNext ==
    \/ start_background_processing
    \/ stop_background_processing
    \/ \E s \in Sessions, p \in PageNums, lang \in Langs :
          preload_page(s, p, PagePath(p), lang)
    \/ \E s \in Sessions, current_page \in PageNums, total_pages \in 0..(MaxPage + 1),
          lang \in Langs :
          preload_upcoming_pages(s, current_page, total_pages, lang)
    \/ WorkerDequeue
    \/ PipelineReturns
    \/ PipelineRaises

NoClearSpec == Init /\ [][NoClearNext]_vars

\* the walk-through of test_preload.py: one session whose reader sits on page 0
\* and asks for the upcoming pages in English.  The page list is long enough
\* for the whole look-ahead window (the test has 4 pages).
ScenarioPages == (preload_ahead + 1)..MaxScenarioPages
ScenarioSession == "s1"
ScenarioLang == "en-US"

ScenarioNext ==
    \/ start_background_processing
    \/ stop_background_processing
    \/ \E total_pages \in ScenarioPages :
          preload_upcoming_pages(ScenarioSession, 0, total_pages, ScenarioLang)
    \/ WorkerDequeue
    \/ PipelineReturns
    \/ PipelineRaises

ScenarioSpec ==
    /\ Init /\ [][ScenarioNext]_vars
    /\ WF_vars(WorkerDequeue)
    /\ WF_vars(PipelineReturns \/ PipelineRaises)

\* the manager after start_background_processing, with no Stop from then on
\* and callers that preload in one language
RunningInit ==
    /\ preload_queue = << >>
    /\ preload_results = << >>
    /\ preload_status = << >>
    /\ running = TRUE
    /\ background_task = "waiting"
    /\ request = None
    /\ raised = FALSE
    /\ returned = NoCall
    /\ unfinished_tasks = 0

RunningNext ==
    \/ \E s \in Sessions, p \in PageNums : preload_page(s, p, PagePath(p), ReadLang)
    \/ \E s \in Sessions, current_page \in PageNums, total_pages \in 0..(MaxPage + 1) :
          preload_upcoming_pages(s, current_page, total_pages, ReadLang)
    \/ \E s \in Sessions : clear_session_data(s)
    \/ WorkerDequeue
    \/ PipelineReturns
    \/ PipelineRaises

\* the event loop resumes the consumer when a request is there, and every
\* pipeline call returns or raises
RunningSpec ==
    /\ RunningInit /\ [][RunningNext]_vars
    /\ WF_vars(WorkerDequeue)
    /\ WF_vars(PipelineReturns \/ PipelineRaises)

\* the manager with callers that preload only through preload_upcoming_pages
WindowNext ==
    \/ start_background_processing
    \/ stop_background_processing
    \/ \E s \in Sessions, current_page \in PageNums, total_pages \in 0..(MaxPage + 1),
          lang \in Langs :
          preload_upcoming_pages(s, current_page, total_pages, lang)
    \/ \E s \in Sessions : clear_session_data(s)
    \/ WorkerDequeue
    \/ PipelineReturns
    \/ PipelineRaises

WindowSpec == Init /\ [][WindowNext]_vars

\* the manager serving two sessions that sit on page SharedPage of the same
\* comic and preload the page after it, directly or through the window
BothSessions == {"s1", "s2"}
SharedPage == 0
SharedLang == "en-US"

BothNext ==
    \/ start_background_processing
    \/ stop_background_processing
    \/ \E s \in BothSessions :
          preload_page(s, SharedPage + 1, PagePath(SharedPage + 1), SharedLang)
    \/ \E s \in BothSessions, total_pages \in 0..(SharedPage + 2) :
          preload_upcoming_pages(s, SharedPage, total_pages, SharedLang)
    \/ \E s \in BothSessions : clear_session_data(s)
    \/ WorkerDequeue
    \/ PipelineReturns
    \/ PipelineRaises

BothSpec == Init /\ [][BothNext]_vars

\* the manager right after clear_session_data (TeardownInit), whose callers
\* from then on preload in the language RestartLang and never clear again
RestartLang == "en-US"

RestartNext ==
    \/ start_background_processing
    \/ stop_background_processing
    \/ \E s \in Sessions, p \in PageNums :
          preload_page(s, p, PagePath(p), RestartLang)
    \/ \E s \in Sessions, current_page \in PageNums, total_pages \in 0..(MaxPage + 1) :
          preload_upcoming_pages(s, current_page, total_pages, RestartLang)
    \/ WorkerDequeue
    \/ PipelineReturns
    \/ PipelineRaises

RestartSpec == TeardownInit /\ [][RestartNext]_vars

\* the consumer makes progress whenever it can: the event loop resumes a ready
\* coroutine, and every pipeline call returns or raises
FairSpec ==
    /\ Spec
    /\ WF_vars(WorkerDequeue)
    /\ WF_vars(PipelineReturns \/ PipelineRaises)

\* ---------------------------------------------------------------- claims
Items == Sessions \X PageNums

\* number of requests for (s, p) waiting in the queue
Queued(s, p) ==
    Cardinality({k \in 1..Len(preload_queue) :
                   /\ preload_queue[k].session_id = s
                   /\ preload_queue[k].page_num = p})

\* the consumer is inside the pipeline call for (s, p)
InFlight(s, p) ==
    /\ background_task = "analyzing"
    /\ request.session_id = s
    /\ request.page_num = p

\* C1: repeated preload_page calls for (S,i) before the item completes leave
\* at most one request for (S,i) pending (waiting in the queue or in flight).
C1_OneRequestPerItem ==
    \A it \in Items :
        Queued(it[1], it[2]) + (IF InFlight(it[1], it[2]) THEN 1 ELSE 0) <= 1

LegalTransitions ==
    { <<"not_started", "processing">>,
      <<"processing", "completed">>,
      <<"processing", "failed">> }

\* C2: every change of Status(S,i) is NotStarted->Processing,
\* Processing->Completed or Processing->Failed, or the removal of the
\* session's entries by ClearSession.
C2_MonotonicLifecycle ==
    [][\A it \in Items :
          LET before == get_preload_status(it[1], it[2])
              after == get_preload_status(it[1], it[2])'
          IN \/ before = after
             \/ <<before, after>> \in LegalTransitions
             \/ it[1] \notin DOMAIN preload_status']_vars

\* C3: while Status(S,i) is Failed or Processing, no step appends a request
\* for (S,i) to the queue.
C3_NoRetryOfFailed ==
    [][\A it \in Items :
          get_preload_status(it[1], it[2]) \in {"failed", "processing"}
            => Queued(it[1], it[2])' <= Queued(it[1], it[2])]_vars

\* C4: IsReady(S,i) is true exactly when Status(S,i) is Completed.
C4_ReadyIffCompleted ==
    \A it \in Items :
        is_page_preloaded(it[1], it[2])
          <=> (get_preload_status(it[1], it[2]) = "completed")

\* C5: in every state a reader can observe, Status(S,i) = Completed implies
\* that a result for (S,i) is in the result store.
C5_AtomicPublish ==
    \A it \in Items :
        get_preload_status(it[1], it[2]) = "completed"
          => is_page_preloaded(it[1], it[2])

C5_Witness ==
    \E it \in Items :
        /\ get_preload_status(it[1], it[2]) = "completed"
        /\ is_page_preloaded(it[1], it[2])

\* C6: IsReady(S,i) is true exactly when Get(S,i) returns a found result
\* (get_preloaded_page returns something other than None).
C6_ReadyIffGetFound ==
    \A it \in Items :
        is_page_preloaded(it[1], it[2]) <=> (get_preloaded_page(it[1], it[2]) # None)

C6_Witness ==
    \E it \in Items :
        /\ is_page_preloaded(it[1], it[2])
        /\ get_preloaded_page(it[1], it[2]) # None
        /\ \E other \in Items : ~is_page_preloaded(other[1], other[2])

\* C7: a result stored for (S,i) keeps its value in every step that does not
\* remove it.
C7_WriteOnce ==
    [][\A it \in Items :
          (is_page_preloaded(it[1], it[2]) /\ is_page_preloaded(it[1], it[2])')
            => get_preloaded_page(it[1], it[2])' = get_preloaded_page(it[1], it[2])]_vars

\* C8: a step in which the in-flight item becomes Failed leaves the consumer
\* loop alive and waiting for the next request, leaves the queue as it is and
\* leaves the status and the result of every other item unchanged.
C8_FailureIsolation ==
    [][\A it \in Items :
          (InFlight(it[1], it[2]) /\ get_preload_status(it[1], it[2])' = "failed")
            => /\ background_task' = "waiting"
               /\ running'
               /\ preload_queue' = preload_queue
               /\ \A other \in Items \ {it} :
                     /\ get_preload_status(other[1], other[2])'
                          = get_preload_status(other[1], other[2])
                     /\ get_preloaded_page(other[1], other[2])'
                          = get_preloaded_page(other[1], other[2])]_vars

\* page 0 failed, page 1 completed, and the consumer loop is still alive,
\* waiting for the next request
C8_Witness ==
    /\ get_preload_status("s1", 0) = "failed"
    /\ get_preload_status("s1", 1) = "completed"
    /\ running
    /\ background_task = "waiting"

\* C9: Stop() while a request is in flight does not cancel it: the consumer
\* is still inside the pipeline call for that request after the Stop step.
C9_StopKeepsInFlight ==
    [][\A it \in Items :
          (InFlight(it[1], it[2]) /\ running /\ ~running')
            => InFlight(it[1], it[2])']_vars

IsPrefix(a, b) == Len(a) <= Len(b) /\ SubSeq(b, 1, Len(a)) = a

\* C10: while the pool is stopped the queue only grows (queued requests stay
\* queued); once the pool runs, every queued request is eventually dequeued,
\* and every in-flight request eventually reaches Completed or Failed, unless
\* the pool is stopped first.
C10_StopStartDrain ==
    /\ [][(~running /\ ~running') => IsPrefix(preload_queue, preload_queue')]_vars
    /\ \A it \in Items :
          /\ (running /\ Queued(it[1], it[2]) > 0)
               ~> (~running \/ InFlight(it[1], it[2]))
          /\ InFlight(it[1], it[2])
               ~> (~running \/ get_preload_status(it[1], it[2]) \in {"completed", "failed"})

\* both pages were queued, the pool runs, and the queue has been drained
C10_Witness ==
    /\ running
    /\ background_task = "waiting"
    /\ preload_queue = << >>
    /\ \A it \in Items : get_preload_status(it[1], it[2]) \in {"completed", "failed"}

\* some session's entries were removed from both maps and nothing else changed
\* in them
ClearedOnly ==
    \E s \in Sessions :
        /\ preload_status' = DictDel(preload_status, s)
        /\ preload_results' = DictDel(preload_results, s)

\* C11: while the pool is stopped, a step can only append to the queue: no
\* request is dequeued, no pipeline invocation starts or ends, and the status
\* and result maps change only by a ClearSession.
C11_StoppedNothingDrains ==
    [][(~running /\ ~running')
         => /\ IsPrefix(preload_queue, preload_queue')
            /\ background_task' # "analyzing"
            /\ \/ (preload_status' = preload_status /\ preload_results' = preload_results)
               \/ ClearedOnly]_vars

\* the pool was stopped with a request in flight, and requests were queued
\* up to the bound while it is stopped
C11_Witness ==
    /\ ~running
    /\ background_task = "cancelled"
    /\ Len(preload_queue) = MaxQueue
    /\ \E it \in Items : get_preload_status(it[1], it[2]) = "processing"

\* number of pipeline invocations in flight
InFlightCount == IF background_task = "analyzing" THEN 1 ELSE 0

\* C12: at most max_workers pipeline invocations are in flight, and a request
\* leaves the queue only when the consumer has no request in flight.
C12_BoundedInFlight ==
    /\ [](InFlightCount <= max_workers)
    /\ [][Len(preload_queue') < Len(preload_queue)
            => (background_task = "waiting" /\ background_task' = "analyzing")]_vars

\* a request is in flight after a Stop/Start cycle that abandoned another
\* one, with more requests waiting
C12_Witness ==
    /\ background_task = "analyzing"
    /\ preload_queue # << >>
    /\ \E it \in Items :
          /\ get_preload_status(it[1], it[2]) = "processing"
          /\ ~InFlight(it[1], it[2])

\* number of live consumer loops
Consumers == IF background_task \in {"waiting", "analyzing"} THEN 1 ELSE 0

\* C13: Start() launches max_workers consumer loops.
C13_StartLaunchesMaxWorkers ==
    [][(~running /\ running') => Consumers' = max_workers]_vars

\* the plan of the window as the claim states it: the indices current + k,
\* k = 1..lookahead, inside 0..total-1 and with status NotStarted
RECURSIVE ClaimedPlan(_, _, _, _)
ClaimedPlan(s, current_page, total_pages, k) ==
    IF k > preload_ahead THEN << >>
    ELSE LET idx == current_page + k
             rest == ClaimedPlan(s, current_page, total_pages, k + 1)
         IN IF 0 <= idx /\ idx < total_pages /\ get_preload_status(s, idx) = "not_started"
              THEN <<idx>> \o rest
              ELSE rest

PlanRequests(s, plan, lang) ==
    [k \in 1..Len(plan) |-> PrefetchRequest(s, plan[k], PagePath(plan[k]), lang)]

\* C14: a PreloadWindow call appends to the queue, in ascending order, exactly
\* the requests for the in-range indices current+1..current+lookahead whose
\* status is NotStarted.
C14_WindowPlan ==
    [][\A s \in Sessions, current_page \in PageNums, total_pages \in 0..(MaxPage + 1),
          lang \in Langs :
          preload_upcoming_pages(s, current_page, total_pages, lang)
            => preload_queue' = preload_queue
                 \o PlanRequests(s, ClaimedPlan(s, current_page, total_pages, 1), lang)]_vars

\* C15: a PreloadWindow call whose current_page lies outside 0..total-1
\* enqueues nothing and raises nothing.
C15_MisuseEmptyPlan ==
    [][\A s \in Sessions, current_page \in (-MaxBack)..MaxPage,
          total_pages \in 0..(MaxPage + 1), lang \in Langs :
          ((current_page < 0 \/ current_page >= total_pages)
             /\ preload_upcoming_pages(s, current_page, total_pages, lang))
            => (preload_queue' = preload_queue /\ ~raised')]_vars

\* C16: no Preload or PreloadWindow call ends with an exception at its caller.
C16_FireAndForget == raised = FALSE

ZeroStats ==
    [total_pages |-> 0, completed |-> 0, processing |-> 0, failed |-> 0, not_started |-> 0]

\* C17: in the state right after ClearSession(S), every index of S has status
\* NotStarted, is not ready and has no result, and Stats(S) is all zero.
C17_ClearRemovesAll ==
    [][\A s \in Sessions :
          clear_session_data(s)
            => /\ \A p \in PageNums :
                    /\ get_preload_status(s, p)' = "not_started"
                    /\ ~is_page_preloaded(s, p)'
                    /\ get_preloaded_page(s, p)' = None
               /\ get_preload_stats(s)' = ZeroStats]_vars

\* the session was cleared while one of its requests is in flight, after a
\* result had been stored for it: no entry of the session is left
C17_Witness ==
    /\ background_task = "analyzing"
    /\ request.session_id \notin DOMAIN preload_status
    /\ request.session_id \notin DOMAIN preload_results

\* C18: after ClearSession(S) with no request of S in flight and no later
\* Preload for S, no status or result entry of S reappears (TeardownSpec
\* starts right after such a clear and has no preload calls).
C18_CleanTeardown ==
    \A s \in Sessions :
        s \notin DOMAIN preload_status /\ s \notin DOMAIN preload_results

\* C19: when the pipeline succeeds for an in-flight (S,i) whose session was
\* cleared meanwhile, the result is stored, Status(S,i) becomes Completed and
\* the consumer keeps running.
C19_StaleSessionWrite ==
    [][\A it \in Items :
          (/\ InFlight(it[1], it[2])
           /\ it[1] \notin DOMAIN preload_status
           /\ is_page_preloaded(it[1], it[2])')
            => /\ get_preload_status(it[1], it[2])' = "completed"
               /\ background_task' = "waiting"]_vars

\* C20: an index for which no Preload was made (since the start or a clear
\* with nothing pending for it) has status NotStarted and is not ready.
C20_NotStartedBeforePreload ==
    \A s \in Sessions :
        /\ get_preload_status(s, QuietPage) = "not_started"
        /\ ~is_page_preloaded(s, QuietPage)

\* another page of the session went through the pipeline meanwhile
C20_Witness ==
    \E s \in Sessions, p \in PageNums \ {QuietPage} :
        /\ get_preload_status(s, p) = "completed"
        /\ is_page_preloaded(s, p)
        /\ get_preload_status(s, QuietPage) = "not_started"

\* C21: a call of is_page_preloaded, get_preloaded_page, get_preload_status or
\* get_preload_stats, for any session and page (known or not), leaves the
\* queue, the status map, the result map and the pool state unchanged, and
\* starts no pipeline call.
C21_PureReads ==
    [][\A s \in ReadSessions, p \in ReadPages :
          (\/ call_is_page_preloaded(s, p)
           \/ call_get_preloaded_page(s, p)
           \/ call_get_preload_status(s, p)
           \/ call_get_preload_stats(s))
            => UNCHANGED <<preload_queue, preload_results, preload_status, running,
                           background_task, request, unfinished_tasks>>]_vars

\* a status read that found nothing was answered while a request waits, and
\* the status map still has no entry
C21_Witness ==
    /\ returned.method = "get_preload_status"
    /\ returned.value = "not_started"
    /\ preload_status = << >>
    /\ preload_queue # << >>

\* C22: a preload_page call only touches the queue: it appends one request
\* (none when the page is already preloaded), leaves the status map, the
\* result map and the pool state unchanged, and does not run the pipeline on
\* the caller's path.
C22_PreloadOnlyEnqueues ==
    [][\A s \in Sessions, p \in PageNums, lang \in Langs :
          preload_page(s, p, PagePath(p), lang)
            => /\ preload_queue' =
                    Append(preload_queue, PrefetchRequest(s, p, PagePath(p), lang))
               /\ UNCHANGED <<preload_results, preload_status, running,
                              background_task, request>>]_vars

\* requests were accepted while the consumer is inside the pipeline, and the
\* queue is as long as the model lets it grow
C22_Witness ==
    /\ background_task = "analyzing"
    /\ Len(preload_queue) = MaxQueue
    /\ \E k \in 1..Len(preload_queue) :
          get_preload_status(preload_queue[k].session_id,
                             preload_queue[k].page_num) = "not_started"

\* the pages of session s for which a request was enqueued (no clear since):
\* the request waits in the queue, or it was dequeued and left a status entry
SeenPages(s) ==
    {p \in PageNums :
        \/ Queued(s, p) > 0
        \/ (s \in DOMAIN preload_status /\ p \in DOMAIN preload_status[s])}

\* C23: get_preload_stats(S) counts in total_pages every page for which a
\* preload enqueued a request since the last clear, and counts the pages whose
\* request still waits in the queue as not_started.
C23_StatsCountQueued ==
    \A s \in Sessions :
        /\ get_preload_stats(s).total_pages = Cardinality(SeenPages(s))
        /\ get_preload_stats(s).not_started =
             Cardinality({p \in SeenPages(s) : get_preload_status(s, p) = "not_started"})

ScenarioRequest(p) ==
    PrefetchRequest(ScenarioSession, p, PagePath(p), ScenarioLang)

ScenarioDone ==
    /\ get_preload_stats(ScenarioSession) =
         [total_pages |-> 2, completed |-> 2, processing |-> 0, failed |-> 0,
          not_started |-> 0]
    /\ is_page_preloaded(ScenarioSession, 1)
    /\ is_page_preloaded(ScenarioSession, 2)

\* C24: in a session of 5 pages (or any number above the look-ahead of 2),
\* preload_upcoming_pages(S, 0, pages, "en-US") enqueues exactly the requests
\* for pages 1 and 2, in that order; with the pool running and the pipeline
\* succeeding, a state is eventually reached where the stats report
\* completed=2, processing=0, failed=0 and both pages are preloaded.
C24_EndToEnd ==
    /\ [][\A total_pages \in ScenarioPages :
            (/\ preload_upcoming_pages(ScenarioSession, 0, total_pages, ScenarioLang)
             /\ ~is_page_preloaded(ScenarioSession, 1)
             /\ ~is_page_preloaded(ScenarioSession, 2))
              => /\ preload_queue' =
                      preload_queue \o <<ScenarioRequest(1), ScenarioRequest(2)>>
                 /\ ~raised']_vars
    /\ (running /\ preload_queue = <<ScenarioRequest(1), ScenarioRequest(2)>>)
          ~> (\/ ScenarioDone
              \/ ~running
              \/ get_preload_stats(ScenarioSession).failed > 0)

\* both pages of the window are analysed and the queue is drained
C24_Witness ==
    /\ ScenarioDone
    /\ running
    /\ preload_queue = << >>

\* C25: while the pool stays running and every pipeline call returns or
\* raises, every enqueued request is eventually dequeued and its page reaches
\* completed or failed; a request leaves the queue only by being dequeued into
\* the pipeline.
C25_Progress ==
    /\ \A it \in Items :
          /\ (Queued(it[1], it[2]) > 0) ~> InFlight(it[1], it[2])
          /\ InFlight(it[1], it[2])
               ~> (get_preload_status(it[1], it[2]) \in {"completed", "failed"})
    /\ [][\A it \in Items :
            Queued(it[1], it[2])' < Queued(it[1], it[2]) => InFlight(it[1], it[2])']_vars

\* one page failed, the other completed, and nothing is left to do
C25_Witness ==
    /\ running
    /\ preload_queue = << >>
    /\ background_task = "waiting"
    /\ \E it \in Items : get_preload_status(it[1], it[2]) = "failed"
    /\ \E it \in Items : get_preload_status(it[1], it[2]) = "completed"

\* C26: requests are dequeued in the order in which they were enqueued: a
\* step that lengthens the queue appends at its tail, and a step that
\* shortens it hands the request at its head to the consumer.
C26_FifoDrain ==
    [][/\ Len(preload_queue') > Len(preload_queue)
            => IsPrefix(preload_queue, preload_queue')
       /\ Len(preload_queue') < Len(preload_queue)
            => /\ preload_queue' = Tail(preload_queue)
               /\ request' = Head(preload_queue)
       /\ Len(preload_queue') = Len(preload_queue)
            => preload_queue' = preload_queue]_vars

\* the consumer works on one request while two requests that differ from each
\* other, the first of them also from the one in flight, wait behind it
C26_Witness ==
    /\ background_task = "analyzing"
    /\ Len(preload_queue) >= 2
    /\ preload_queue[1] # preload_queue[2]
    /\ request # preload_queue[1]

\* C27: the consumer sets Processing before it invokes the pipeline; when the
\* pipeline succeeds it stores the result and then sets Completed; Failed is
\* set only when the pipeline call for the page failed, and Completed only
\* when it succeeded.
C27_WorkerStepOrder ==
    [][/\ WorkerDequeue
            => /\ get_preload_status(request.session_id, request.page_num)' = "processing"
               /\ preload_results' = preload_results
       /\ \A it \in Items :
            /\ (InFlight(it[1], it[2]) /\ PipelineReturns)
                 => /\ is_page_preloaded(it[1], it[2])'
                    /\ get_preload_status(it[1], it[2])' = "completed"
            /\ (/\ get_preload_status(it[1], it[2])' = "failed"
                /\ get_preload_status(it[1], it[2]) # "failed") => PipelineRaises
            /\ (/\ get_preload_status(it[1], it[2])' = "completed"
                /\ get_preload_status(it[1], it[2]) # "completed") => PipelineReturns]_vars

\* C28: preload_upcoming_pages enqueues nothing when current_page is the last
\* page or the look-ahead is 0; near the end it enqueues only pages below
\* total_pages (from the page before the last, only the last page).  Stated of
\* the queue a call would leave, in every state and for every call.
C28_WindowBoundary ==
    \A s \in Sessions, current_page \in PageNums, total_pages \in 0..(MaxPage + 1),
       lang \in Langs :
        LET after == enqueue_window(preload_queue, s, current_page, total_pages, lang)
            added == SubSeq(after, Len(preload_queue) + 1, Len(after))
            last == total_pages - 1
        IN /\ pages_ahead(current_page, total_pages, 1, 0) = << >>
           /\ ~WindowRaises(current_page, total_pages)
           /\ IsPrefix(preload_queue, after)
           /\ \A k \in 1..Len(added) :
                 /\ added[k].page_num < total_pages
                 /\ added[k].page_num > current_page
           /\ current_page = last => after = preload_queue
           /\ current_page = last - 1
                => after = IF is_page_preloaded(s, last) THEN preload_queue
                           ELSE Append(preload_queue,
                                       PrefetchRequest(s, last, PagePath(last), lang))

\* the last page was enqueued (the farthest a window reaches) and the latest
\* preload call ended without an exception
C28_Witness ==
    /\ preload_queue # << >>
    /\ preload_queue[Len(preload_queue)].page_num = MaxPage
    /\ ~is_page_preloaded(preload_queue[Len(preload_queue)].session_id, MaxPage)
    /\ ~raised

\* C29: the pool is Stopped or Running; a Start while Running and a Stop while
\* Stopped change nothing; no consumer loop is live while Stopped, and at most
\* the configured number while Running.
C29_PoolStateMachine ==
    /\ running \in BOOLEAN
    /\ running => ~ENABLED start_background_processing
    /\ ~running => ~ENABLED stop_background_processing
    /\ ~running => Consumers = 0
    /\ running => Consumers <= max_workers

\* the pool was stopped with a request in flight after it had completed
\* another one; no consumer is left
C29_Witness ==
    /\ ~running
    /\ background_task = "cancelled"
    /\ \E it \in Items : get_preload_status(it[1], it[2]) = "completed"
    /\ \E it \in Items : get_preload_status(it[1], it[2]) = "processing"

\* C30: every page whose status is Processing has a consumer executing the
\* pipeline for it; no page is left Processing with no consumer on it (in
\* particular after a Stop followed by a Start).
C30_ProcessingMeansInFlight ==
    \A it \in Items :
        get_preload_status(it[1], it[2]) = "processing" => InFlight(it[1], it[2])

\* the entries of session t in a nested dict, as a set of (page, value) pairs
EntriesOf(d, t) ==
    IF t \in DOMAIN d THEN {<<p, d[t][p]>> : p \in DOMAIN d[t]} ELSE {}

\* a step leaves the status and result entries of session t as they are
SessionUntouched(t) ==
    /\ (t \in DOMAIN preload_status') = (t \in DOMAIN preload_status)
    /\ (t \in DOMAIN preload_results') = (t \in DOMAIN preload_results)
    /\ EntriesOf(preload_status', t) = EntriesOf(preload_status, t)
    /\ EntriesOf(preload_results', t) = EntriesOf(preload_results, t)

\* a step of the manager made on behalf of session s: a preload call, a clear,
\* or a consumer step for a request of s
StepFor(s) ==
    \/ \E p \in PageNums, lang \in Langs : preload_page(s, p, PagePath(p), lang)
    \/ \E total_pages \in 0..(SharedPage + 2) :
          preload_upcoming_pages(s, SharedPage, total_pages, SharedLang)
    \/ clear_session_data(s)
    \/ (WorkerDequeue /\ Head(preload_queue).session_id = s)
    \/ ((PipelineReturns \/ PipelineRaises) /\ request.session_id = s)

\* C31: a preload call, a clear and every consumer step for a request of
\* session S leave the status and result entries of every other session
\* unchanged; clear_session_data(S) also leaves the queue unchanged.
C31_SessionIsolation ==
    [][\A s \in BothSessions :
          /\ StepFor(s) => \A t \in BothSessions \ {s} : SessionUntouched(t)
          /\ clear_session_data(s) => preload_queue' = preload_queue]_vars

\* one session's request is in flight after that session was cleared, while
\* the other session keeps its result
C31_Witness ==
    \E s \in BothSessions, t \in BothSessions :
        /\ s # t
        /\ InFlight(s, SharedPage + 1)
        /\ s \notin DOMAIN preload_status
        /\ is_page_preloaded(t, SharedPage + 1)
        /\ get_preload_status(t, SharedPage + 1) = "completed"

\* C32: a result found by get_preloaded_page(S,i) is the pipeline's output for
\* the page path and the language of a request enqueued for (S,i) since the
\* last clear of S (or in flight during it), and it is filed under the
\* request's session and page.  Here every request since the clear is for
\* (PagePath(i), RestartLang) and none was in flight during it.
C32_CachedValueCorrect ==
    \A it \in Items :
        is_page_preloaded(it[1], it[2])
          => get_preloaded_page(it[1], it[2]) =
               analyze_and_generate_audio(PagePath(it[2]), RestartLang)

\* number of pages of session s for which get_preload_status answers st
PagesWithStatus(s, st) ==
    Cardinality({p \in PageNums : get_preload_status(s, p) = st})

\* C33: in every reachable state and for every session, the stats satisfy
\* total_pages = completed + processing + failed + not_started, no count is
\* negative, and completed, processing and failed equal the number of pages
\* whose status is completed, processing and failed.
C33_StatsConsistent ==
    \A s \in BothSessions \cup ReadSessions :
        LET stats == get_preload_stats(s)
        IN /\ stats.total_pages =
                stats.completed + stats.processing + stats.failed + stats.not_started
           /\ stats.total_pages >= 0
           /\ stats.completed >= 0
           /\ stats.processing >= 0
           /\ stats.failed >= 0
           /\ stats.not_started >= 0
           /\ stats.completed = PagesWithStatus(s, "completed")
           /\ stats.processing = PagesWithStatus(s, "processing")
           /\ stats.failed = PagesWithStatus(s, "failed")

\* one session has a failed page whose result is stored all the same, while
\* the other session's page is processing
C33_Witness ==
    \E s \in BothSessions, t \in BothSessions :
        /\ get_preload_stats(s).failed = 1
        /\ \E p \in PageNums : is_page_preloaded(s, p)
        /\ get_preload_stats(t).processing = 1
        /\ get_preload_stats(t).total_pages = 1

\* C34: every request the consumer takes from the queue is matched by one
\* task_done() once its processing ended, so whenever the consumer is not
\* inside the pipeline the queue's count of unfinished tasks equals the number
\* of requests waiting in the queue, also after Stop and Start.
C34_QueueAccounting ==
    background_task # "analyzing" => unfinished_tasks = Len(preload_queue)

====
